---- MODULE Spec2Model ----
(***************************************************************************)
(* A model of simple_video_editor: the job classes of src/main.py, which   *)
(* turn a configuration into an ordered list of ffmpeg command vectors,    *)
(* and GenericFFmpegWorker, the QThread that runs that list one child      *)
(* process at a time while the GUI thread may call stop().                 *)
(*                                                                         *)
(* The worker thread and the caller of stop() are modelled statement by    *)
(* statement: every read or write of an attribute the two threads share    *)
(* (_is_stopped, process) is a step of its own, so the interleavings TLC   *)
(* explores are the ones the two Python threads can produce.               *)
(*                                                                         *)
(* Three specifications share the variables: Spec is one run of a worker   *)
(* that start_worker has started; AppSpec is the window, VideoEditorApp,   *)
(* starting one worker after another; JobSpec is a job object on its own,  *)
(* with build_commands() and cleanup() called on it directly.              *)
(***************************************************************************)
EXTENDS Integers, Sequences, FiniteSets, TLC

\* Number of output lines a child process writes before it closes its pipe.
MaxLines == 2

None == "None"

----------------------------------------------------------------------------
(* Part 1: the jobs (BaseMediaJob and its three subclasses)                *)

\* BaseMediaJob.__init__: the prefix of the two-pass statistics files.
pass_log_prefix == "ffmpeg2pass-log"

\* The path tempfile.NamedTemporaryFile gives the list file of a demuxer job.
TempListFile == "/tmp/tmplist"

\* The statistics file ffmpeg writes in the working directory under -pass.
PassLogFile == pass_log_prefix \o "-0.log"

\* str.startswith, as glob.glob(f"{prefix}*") uses it on a file name.
StartsWith(s, p) ==
    /\ Len(p) <= Len(s)
    /\ \A k \in 1..Len(p) : SubSeq(s, k, k) = SubSeq(p, k, k)

\* list.extend / [*a, *b]
Flatten(seqs) ==
    LET RECURSIVE F(_)
        F(n) == IF n = 0 THEN <<>> ELSE F(n - 1) \o seqs[n]
    IN  F(Len(seqs))

\* ";".join(parts) and " ".join(parts)
RECURSIVE Join(_, _)
Join(sep, parts) ==
    IF Len(parts) = 0 THEN ""
    ELSE IF Len(parts) = 1 THEN parts[1]
    ELSE parts[1] \o sep \o Join(sep, Tail(parts))

\* os.sep
os_sep(osname) == IF osname = "nt" THEN "\\" ELSE "/"

\* str.replace(old, new) for a one-character old.
RECURSIVE Replace(_, _, _)
Replace(s, old, new) ==
    IF Len(s) = 0 THEN ""
    ELSE (IF SubSeq(s, 1, 1) = old THEN new ELSE SubSeq(s, 1, 1))
         \o Replace(SubSeq(s, 2, Len(s)), old, new)

\* A line 64 that writes the path as it is.
safe_path_AsIs(file_path, osname) == file_path

\* MergeDemuxerJob.build_commands, line 64.
safe_path(file_path, osname) == Replace(file_path, os_sep(osname), "/")

\* MergeDemuxerJob.build_commands, lines 63-65: the lines written to the list
\* file, each without the newline that ends it.
ListFileLines(j, osname) ==
    [n \in 1..Len(j.file_list) |->
        "file '" \o safe_path(j.file_list[n], osname) \o "'"]

\* MergeDemuxerJob.build_commands, the command it returns once the list file
\* has been written and its name stored in temp_file_name.
MergeDemuxerCommands(j, tmp) ==
    << << "ffmpeg", "-f", "concat", "-safe", "0",
          "-i", tmp,
          "-c", "copy", "-y", j.output_file >> >>

\* MergeFilterJob.build_commands: the per-input pieces, for 0-based index n.
FilterVideo(n) ==
    "[" \o ToString(n) \o ":v]scale=1920:1080:force_original_aspect_ratio=decrease,"
        \o "pad=1920:1080:(ow-iw)/2:(oh-ih)/2,setsar=1[v" \o ToString(n) \o "]"

FilterAudio(n) ==
    "[" \o ToString(n) \o ":a]aformat=sample_rates=44100:channel_layouts=stereo[a"
        \o ToString(n) \o "]"

\* A concat input that names the audio of an input before its video.
ConcatLabel_AudioFirst(n) == "[a" \o ToString(n) \o "][v" \o ToString(n) \o "]"

ConcatLabel(n) == "[v" \o ToString(n) \o "][a" \o ToString(n) \o "]"

\* The list filter_parts after the loop and the append of the concat filter.
FilterParts(file_count) ==
    Flatten([n \in 1..file_count |-> << FilterVideo(n - 1), FilterAudio(n - 1) >>])
    \o << Join("", [n \in 1..file_count |-> ConcatLabel(n - 1)])
          \o "concat=n=" \o ToString(file_count) \o ":v=1:a=1[v][a]" >>

MergeFilterCommands(j) ==
    LET file_count == Len(j.file_list)
        input_args == Flatten([n \in 1..file_count |-> << "-i", j.file_list[n] >>])
        filter_string == Join(";", FilterParts(file_count))
    IN  << << "ffmpeg" >> \o input_args
           \o << "-filter_complex", filter_string,
                 "-map", "[v]", "-map", "[a]", "-y",
                 "-c:v", "libx264", "-preset", "medium", "-crf", "23",
                 "-c:a", "aac", "-b:a", "128k",
                 j.output_file >> >>

\* RecodeJob.build_commands, step 1: the audio options.
AudioOpts(j) ==
    IF j.a_codec = "copy" THEN << "-c:a", "copy" >>
    ELSE IF j.a_codec = "libmp3lame"
         THEN << "-c:a", "libmp3lame" >>
              \o (IF j.a_mode = "VBR" THEN << "-q:a", j.a_qscale >>
                                      ELSE << "-b:a", j.a_bitrate >>)
    ELSE << "-c:a", j.a_codec >>
         \o (IF j.a_bitrate # "" THEN << "-b:a", j.a_bitrate >> ELSE <<>>)

\* RecodeJob.build_commands, step 2: the video filter.
FilterOpts(j) ==
    IF j.scale # "" THEN << "-vf", "scale=" \o j.scale >> ELSE <<>>

\* A CRF branch that sets a target bitrate instead of a quality level.
VideoOptsCRF_Bitrate(j) ==
    << "-c:v", j.v_codec >>
    \o (IF j.v_bitrate # "" THEN << "-b:v", j.v_bitrate >> ELSE <<>>)
    \o (IF j.v_preset # "" THEN << "-preset", j.v_preset >> ELSE <<>>)

\* RecodeJob.build_commands, step 3: the video options of each mode.
VideoOptsCRF(j) ==
    << "-c:v", j.v_codec >>
    \o (IF j.v_codec \in {"libx264", "libx265"}
        THEN (IF j.v_crf # "" THEN << "-crf", j.v_crf >> ELSE <<>>)
             \o (IF j.v_preset # "" THEN << "-preset", j.v_preset >> ELSE <<>>)
        ELSE <<>>)

VideoOpts2Pass(j) ==
    << "-c:v", j.v_codec >>
    \o (IF j.v_bitrate # "" THEN << "-b:v", j.v_bitrate >> ELSE <<>>)
    \o (IF j.v_preset # "" THEN << "-preset", j.v_preset >> ELSE <<>>)

\* A line 185 that does not look at os.name.
null_device_PosixOnly(osname) == "/dev/null"

\* RecodeJob.build_commands, line 185.
null_device(osname) == IF osname = "nt" THEN "NUL" ELSE "/dev/null"

\* A build_commands whose first pass puts the video filter after the null
\* sink.
RecodeCommands_FilterLast(j, osname) ==
    LET base_cmd == << "ffmpeg", "-y", "-i", j.input_file >>
    IN  IF j.v_mode = "CRF"
        THEN << base_cmd \o VideoOptsCRF(j) \o AudioOpts(j) \o FilterOpts(j)
                \o << j.output_file >> >>
        ELSE IF j.v_mode = "2-Pass"
        THEN << base_cmd \o VideoOpts2Pass(j)
                \o << "-pass", "1", "-an", "-f", "null", null_device(osname) >>
                \o FilterOpts(j),
                base_cmd \o VideoOpts2Pass(j) \o AudioOpts(j) \o FilterOpts(j)
                \o << "-pass", "2", j.output_file >> >>
        ELSE << base_cmd \o << "-c:v", "copy" >> \o AudioOpts(j) \o FilterOpts(j)
                \o << j.output_file >> >>

\* RecodeJob.build_commands, lines 135-202: the commands of each mode.
RecodeCommands(j, osname) ==
    LET base_cmd == << "ffmpeg", "-y", "-i", j.input_file >>
    IN  IF j.v_mode = "CRF"
        THEN << base_cmd \o VideoOptsCRF(j) \o AudioOpts(j) \o FilterOpts(j)
                \o << j.output_file >> >>
        ELSE IF j.v_mode = "2-Pass"
        THEN << base_cmd \o VideoOpts2Pass(j) \o FilterOpts(j)
                \o << "-pass", "1", "-an", "-f", "null", null_device(osname) >>,
                base_cmd \o VideoOpts2Pass(j) \o AudioOpts(j) \o FilterOpts(j)
                \o << "-pass", "2", j.output_file >> >>
        ELSE << base_cmd \o << "-c:v", "copy" >> \o AudioOpts(j) \o FilterOpts(j)
                \o << j.output_file >> >>

\* job.build_commands(), dispatched on the job's class.
build_commands(j, tmp, osname) ==
    IF j.class = "MergeDemuxerJob" THEN MergeDemuxerCommands(j, tmp)
    ELSE IF j.class = "MergeFilterJob" THEN MergeFilterCommands(j)
    ELSE RecodeCommands(j, osname)

\* The jobs the GUI hands to start_worker in this model: one per class, and
\* for RecodeJob one per video mode of v_mode_combo.
MergeJob(cls) ==
    [class |-> cls, file_list |-> << "a.mp4", "b.mp4" >>, output_file |-> "out.mp4",
     input_file |-> "", v_codec |-> "", v_mode |-> "", v_crf |-> "", v_preset |-> "",
     v_bitrate |-> "", a_codec |-> "", a_mode |-> "", a_bitrate |-> "",
     a_qscale |-> "", scale |-> ""]

RecodeJob(v_codec, v_mode) ==
    [class |-> "RecodeJob", file_list |-> <<>>, output_file |-> "out.mp4",
     input_file |-> "in.mp4", v_codec |-> v_codec, v_mode |-> v_mode,
     v_crf |-> "23", v_preset |-> "medium", v_bitrate |-> "5000k",
     a_codec |-> "aac", a_mode |-> "ABR", a_bitrate |-> "192k",
     a_qscale |-> "2", scale |-> ""]

WorkerJobs ==
    { MergeJob("MergeDemuxerJob"), MergeJob("MergeFilterJob"),
      RecodeJob("libx264", "CRF"), RecodeJob("libx264", "2-Pass") }

----------------------------------------------------------------------------
(* Part 2: GenericFFmpegWorker                                             *)

VARIABLES
    job,                \* self.job, the job handed to the worker
    os_name,            \* os.name of the platform
    fs,                 \* the names of the files that exist on disk
    temp_file_name,     \* job.temp_file_name
    list_file,          \* the lines written to the list file
    command_list_group, \* run(): the list build_commands() returned
    i,                  \* run(): the loop index of enumerate()
    pc,                 \* run(): the statement the worker thread is at
    _is_stopped,         \* self._is_stopped
    process,            \* self.process: None (0) or an index into children
    popened,            \* the Popen object line 234 has built, not yet stored
    children,           \* every child process Popen has launched, in order
    exc,                \* the exception the except clause caught, or None
    events,             \* the signals emitted so far, in emission order
    cleanups,           \* how many times job.cleanup() has been called
    remove_failed,      \* whether an os.remove of cleanup() has raised OSError
    stop_pc,            \* stop(): the statement the caller thread is at
    live_at_stop,       \* the children that were running when stop() was called
    tabs_enabled,       \* VideoEditorApp: self.tabs.isEnabled()
    worker,             \* VideoEditorApp: self.worker, None (0) or the worker's number
    delivered,          \* how many terminal signals of the worker its slots have handled
    old                 \* the threads of the workers self.worker named before

vars == << job, os_name, fs, temp_file_name, list_file, command_list_group, i, pc,
           _is_stopped, process, popened, children, exc, events, cleanups,
           remove_failed, stop_pc, live_at_stop, tabs_enabled, worker, delivered,
           old >>

jobVars == << job, os_name >>
stopVars == << stop_pc, live_at_stop >>
appVars == << tabs_enabled, worker, delivered, old >>

\* One emitted signal: which signal, which message, and the pass number and
\* number (exit code or line number) the message text carries.
Event(sig, msg, pass, code) == [sig |-> sig, msg |-> msg, pass |-> pass, code |-> code]

Emit(e) == events' = Append(events, e)

\* pass_num = i + 1
pass_num == i + 1

\* A child process as Popen creates it: running, nothing written yet.
NewChild(cmd) ==
    [pass |-> cmd, state |-> "running", returncode |-> None, signalled |-> FALSE,
     pipe |-> 0, written |-> 0, waited |-> FALSE]

\* The exit status a child can end with: ffmpeg ends 0 or 1 by itself, and
\* 255 when it ends because of the termination signal.
ExitCodes(c) == IF c.signalled THEN {0, 1, 255} ELSE {0, 1}

Init ==
    /\ job \in WorkerJobs
    /\ os_name = "posix"
    /\ fs \in {{}, {PassLogFile}}
    /\ temp_file_name = None
    /\ list_file = <<>>
    /\ command_list_group = <<>>
    /\ i = 0
    /\ pc = "build"
    /\ _is_stopped = FALSE
    /\ process = 0
    /\ popened = 0
    /\ children = <<>>
    /\ exc = None
    /\ events = <<>>
    /\ cleanups = 0
    /\ remove_failed = FALSE
    /\ stop_pc = "idle"
    /\ live_at_stop = {}
    /\ tabs_enabled = FALSE
    /\ worker = 1
    /\ delivered = 0
    /\ old = <<>>

(* run(), line 222: job.build_commands() returns the command list.  A      *)
(* MergeDemuxerJob writes its list file first and records its name.        *)
BuildCommands ==
    /\ pc = "build"
    /\ IF job.class = "MergeDemuxerJob"
       THEN /\ fs' = fs \cup {TempListFile}
            /\ list_file' = ListFileLines(job, os_name)
            /\ temp_file_name' = TempListFile
       ELSE UNCHANGED << fs, temp_file_name, list_file >>
    /\ command_list_group' = build_commands(job, temp_file_name', os_name)
    /\ pc' = "loop"
    /\ UNCHANGED << jobVars, appVars, i, _is_stopped, process, popened,
                    children, exc, events, cleanups, remove_failed,
                    stopVars >>

(* run(), line 222: build_commands() raises.  Only MergeDemuxerJob does    *)
(* I/O: NamedTemporaryFile can fail before the file exists ("create"),     *)
(* write() can fail after it exists and before line 66 stores its name     *)
(* ("write"), and the close at the end of the with block can fail after    *)
(* line 66 ("close").                                                      *)
BuildCommandsRaises ==
    /\ pc = "build"
    /\ job.class = "MergeDemuxerJob"
    /\ \E at \in {"create", "write", "close"} :
         /\ fs' = IF at = "create" THEN fs ELSE fs \cup {TempListFile}
         /\ temp_file_name' = IF at = "close" THEN TempListFile ELSE temp_file_name
         /\ \E n \in 0..Len(job.file_list) :
              /\ at = "create" => n = 0
              /\ at = "write" => n < Len(job.file_list)
              /\ list_file' = SubSeq(ListFileLines(job, os_name), 1, n)
    /\ exc' = "build"
    /\ pc' = "except"
    /\ UNCHANGED << jobVars, appVars, command_list_group, i, _is_stopped,
                    process, popened, children, events, cleanups,
                    remove_failed, stopVars >>

(* run(), lines 226-228: the next iteration of the for loop, if there is   *)
(* one and the stop flag is not set.                                       *)
LoopHead ==
    /\ pc = "loop"
    /\ pc' = IF i >= Len(command_list_group) THEN "after_loop"
             ELSE IF _is_stopped THEN "after_loop"
             ELSE "emit_start"
    /\ UNCHANGED << jobVars, appVars, fs, temp_file_name, list_file,
                    command_list_group, i, _is_stopped, process, popened,
                    children, exc, events, cleanups, remove_failed,
                    stopVars >>

(* run(), line 231 *)
EmitPassStart ==
    /\ pc = "emit_start"
    /\ Emit(Event("progress", "pass_start", pass_num, Len(command_list_group)))
    /\ pc' = "emit_cmd"
    /\ UNCHANGED << jobVars, appVars, fs, temp_file_name, list_file,
                    command_list_group, i, _is_stopped, process, popened,
                    children, exc, cleanups, remove_failed, stopVars >>

\* A line 232 that emits nothing.
EmitCommand_Silent ==
    /\ pc = "emit_cmd"
    /\ pc' = "popen"
    /\ UNCHANGED << jobVars, appVars, fs, temp_file_name, list_file,
                    command_list_group, i, _is_stopped, process, popened,
                    children, exc, events, cleanups, remove_failed, stopVars >>

(* run(), line 232 *)
EmitCommand ==
    /\ pc = "emit_cmd"
    /\ Emit(Event("progress", "command", pass_num, 0))
    /\ pc' = "popen"
    /\ UNCHANGED << jobVars, appVars, fs, temp_file_name, list_file,
                    command_list_group, i, _is_stopped, process, popened,
                    children, exc, cleanups, remove_failed, stopVars >>

(* run(), lines 234-241: subprocess.Popen launches the child.  The new     *)
(* Popen object is not yet stored in self.process.                         *)
Popen ==
    /\ pc = "popen"
    /\ children' = Append(children, NewChild(i + 1))
    /\ popened' = Len(children) + 1
    /\ pc' = "assign"
    /\ UNCHANGED << jobVars, appVars, fs, temp_file_name, list_file,
                    command_list_group, i, _is_stopped, process, exc, events,
                    cleanups, remove_failed, stopVars >>

(* run(), lines 234-241: subprocess.Popen raises (ffmpeg is not found).    *)
PopenRaises ==
    /\ pc = "popen"
    /\ exc' = "launch"
    /\ pc' = "except"
    /\ UNCHANGED << jobVars, appVars, fs, temp_file_name, list_file,
                    command_list_group, i, _is_stopped, process, popened,
                    children, events, cleanups, remove_failed, stopVars >>

(* A run() that launches a pass and goes on to the next without reading    *)
(* the child's output or waiting for it.                                   *)
AssignProcess_NoWait ==
    /\ pc = "assign"
    /\ process' = popened
    /\ i' = i + 1
    /\ pc' = "loop"
    /\ UNCHANGED << jobVars, appVars, fs, temp_file_name, list_file,
                    command_list_group, _is_stopped, popened, children, exc,
                    events, cleanups, remove_failed, stopVars >>

(* run(), line 234: the store into self.process. *)
AssignProcess ==
    /\ pc = "assign"
    /\ process' = popened
    /\ pc' = "read"
    /\ UNCHANGED << jobVars, appVars, fs, temp_file_name, list_file,
                    command_list_group, i, _is_stopped, popened, children,
                    exc, events, cleanups, remove_failed, stopVars >>

(* run(), line 243: the iterator over process.stdout yields a line. *)
ReadLine ==
    /\ pc = "read"
    /\ children[process].pipe > 0
    /\ children' = [children EXCEPT ![process].pipe = @ - 1]
    /\ pc' = "line_check"
    /\ UNCHANGED << jobVars, appVars, fs, temp_file_name, list_file,
                    command_list_group, i, _is_stopped, process, popened, exc,
                    events, cleanups, remove_failed, stopVars >>

(* run(), line 243: the iterator ends: the child has closed its output.    *)
ReadEOF ==
    /\ pc = "read"
    /\ children[process].pipe = 0
    /\ children[process].state = "exited"
    /\ pc' = "wait"
    /\ UNCHANGED << jobVars, appVars, fs, temp_file_name, list_file,
                    command_list_group, i, _is_stopped, process, popened,
                    children, exc, events, cleanups, remove_failed,
                    stopVars >>

(* run(), line 243: reading raises (the output is not valid UTF-8).        *)
ReadRaises ==
    /\ pc = "read"
    /\ children[process].pipe > 0
    /\ children' = [children EXCEPT ![process].pipe = @ - 1]
    /\ exc' = "read"
    /\ pc' = "except"
    /\ UNCHANGED << jobVars, appVars, fs, temp_file_name, list_file,
                    command_list_group, i, _is_stopped, process, popened,
                    events, cleanups, remove_failed, stopVars >>

(* A line 245 that returns instead of breaking: process.wait() is skipped.  *)
LineCheck_NoWait ==
    /\ pc = "line_check"
    /\ pc' = IF _is_stopped THEN "finally" ELSE "emit_line"
    /\ UNCHANGED << jobVars, appVars, fs, temp_file_name, list_file,
                    command_list_group, i, _is_stopped, process, popened,
                    children, exc, events, cleanups, remove_failed,
                    stopVars >>

(* run(), lines 244-245: the stop flag is read for the line just read.     *)
LineCheck ==
    /\ pc = "line_check"
    /\ pc' = IF _is_stopped THEN "wait" ELSE "emit_line"
    /\ UNCHANGED << jobVars, appVars, fs, temp_file_name, list_file,
                    command_list_group, i, _is_stopped, process, popened,
                    children, exc, events, cleanups, remove_failed,
                    stopVars >>

(* run(), line 246 *)
EmitLine ==
    /\ pc = "emit_line"
    /\ Emit(Event("progress", "line", pass_num,
                  children[process].written - children[process].pipe))
    /\ pc' = "read"
    /\ UNCHANGED << jobVars, appVars, fs, temp_file_name, list_file,
                    command_list_group, i, _is_stopped, process, popened,
                    children, exc, cleanups, remove_failed, stopVars >>

(* run(), line 248: process.wait() returns once the child has exited.      *)
Wait ==
    /\ pc = "wait"
    /\ children[process].state = "exited"
    /\ children' = [children EXCEPT ![process].waited = TRUE]
    /\ pc' = "check_fail"
    /\ UNCHANGED << jobVars, appVars, fs, temp_file_name, list_file,
                    command_list_group, i, _is_stopped, process, popened, exc,
                    events, cleanups, remove_failed, stopVars >>

\* A run() whose cleanup is the last statement of the try block instead of a
\* finally clause: a return statement leaves run() at once.
OnReturn_NoFinally == "done"

\* run(), line 266: where a return statement inside the try block, or the end
\* of the try or except block, continues: the finally clause.
OnReturn == "finally"

\* A line 251 that does not look at the stop flag: any non-zero status of the
\* child is a failure.
PassFailed_IgnoresFlag(stopped, returncode) == returncode # 0

\* A line 251 that takes only a negative status (death by signal) for failure.
PassFailed_OnlyNegative(stopped, returncode) == ~stopped /\ returncode < 0

\* run(), line 251: the condition under which a pass is reported as failed.
PassFailed(stopped, returncode) == ~stopped /\ returncode # 0

(* run(), line 251 *)
CheckFail ==
    /\ pc = "check_fail"
    /\ pc' = IF PassFailed(_is_stopped, children[process].returncode)
             THEN "emit_error" ELSE "check_stop"
    /\ UNCHANGED << jobVars, appVars, fs, temp_file_name, list_file,
                    command_list_group, i, _is_stopped, process, popened,
                    children, exc, events, cleanups, remove_failed,
                    stopVars >>

(* run(), lines 252-253: report the failed pass and return. *)
EmitError ==
    /\ pc = "emit_error"
    /\ Emit(Event("error", "pass_failed", pass_num, children[process].returncode))
    /\ pc' = OnReturn
    /\ UNCHANGED << jobVars, appVars, fs, temp_file_name, list_file,
                    command_list_group, i, _is_stopped, process, popened,
                    children, exc, cleanups, remove_failed, stopVars >>

(* run(), line 255: after a pass, return if the flag is set, else loop.    *)
CheckStop ==
    /\ pc = "check_stop"
    /\ IF _is_stopped
       THEN pc' = "emit_aborted" /\ i' = i
       ELSE pc' = "loop" /\ i' = i + 1
    /\ UNCHANGED << jobVars, appVars, fs, temp_file_name, list_file,
                    command_list_group, _is_stopped, process, popened,
                    children, exc, events, cleanups, remove_failed,
                    stopVars >>

(* run(), lines 256-257 *)
EmitAborted ==
    /\ pc = "emit_aborted"
    /\ Emit(Event("progress", "aborted", pass_num, 0))
    /\ pc' = OnReturn
    /\ UNCHANGED << jobVars, appVars, fs, temp_file_name, list_file,
                    command_list_group, i, _is_stopped, process, popened,
                    children, exc, cleanups, remove_failed, stopVars >>

\* A line 260 without the test: success is reported whenever the loop ends.
SuccessReported_Always(stopped) == TRUE

\* run(), line 260: the condition under which success is reported.
SuccessReported(stopped) == ~stopped

(* run(), line 260: after the loop. *)
AfterLoop ==
    /\ pc = "after_loop"
    /\ pc' = IF SuccessReported(_is_stopped) THEN "emit_finished" ELSE OnReturn
    /\ UNCHANGED << jobVars, appVars, fs, temp_file_name, list_file,
                    command_list_group, i, _is_stopped, process, popened,
                    children, exc, events, cleanups, remove_failed,
                    stopVars >>

(* run(), line 261 *)
EmitFinished ==
    /\ pc = "emit_finished"
    /\ Emit(Event("finished", "done", 0, 0))
    /\ pc' = OnReturn
    /\ UNCHANGED << jobVars, appVars, fs, temp_file_name, list_file,
                    command_list_group, i, _is_stopped, process, popened,
                    children, exc, cleanups, remove_failed, stopVars >>

\* A line 264 with the test inverted.
ExceptionReported_Inverted(stopped) == stopped

\* A line 264 without the test: every caught exception is reported.
ExceptionReported_Always(stopped) == TRUE

\* run(), line 264: the condition under which a caught exception is reported.
ExceptionReported(stopped) == ~stopped

(* run(), lines 263-264: the except clause. *)
Except ==
    /\ pc = "except"
    /\ pc' = IF ExceptionReported(_is_stopped) THEN "emit_exception" ELSE OnReturn
    /\ UNCHANGED << jobVars, appVars, fs, temp_file_name, list_file,
                    command_list_group, i, _is_stopped, process, popened,
                    children, exc, events, cleanups, remove_failed,
                    stopVars >>

(* run(), line 265 *)
EmitException ==
    /\ pc = "emit_exception"
    /\ Emit(Event("error", "exception", 0, 0))
    /\ pc' = OnReturn
    /\ UNCHANGED << jobVars, appVars, fs, temp_file_name, list_file,
                    command_list_group, i, _is_stopped, process, popened,
                    children, exc, cleanups, remove_failed, stopVars >>

\* A line 38 without the os.path.exists test: the list file is removed
\* whenever its name is recorded.
TempToRemove_NoExistsTest(tmp, files) == IF tmp # None THEN {tmp} ELSE {}

\* BaseMediaJob.cleanup, line 38: the list file is removed when its name is
\* recorded and the file exists.
TempToRemove(tmp, files) == IF tmp # None /\ tmp \in files THEN {tmp} ELSE {}

\* BaseMediaJob.cleanup, line 43: glob.glob(f"{self.pass_log_prefix}*").
LogFiles(files) == { f \in files : StartsWith(f, pass_log_prefix) }

(* run(), line 268: job.cleanup() in the finally clause.  os.remove of the *)
(* list file (line 39) succeeds here; each os.remove of a statistics file  *)
(* (line 47) succeeds or raises OSError, which line 49 swallows.  The      *)
(* returned message is None when nothing was removed.                      *)
Cleanup ==
    /\ pc = "finally"
    /\ cleanups' = cleanups + 1
    /\ \E removed \in SUBSET LogFiles(fs) :
         LET gone == TempToRemove(temp_file_name, fs) \cup removed
         IN  /\ fs' = fs \ gone
             /\ remove_failed' = (removed # LogFiles(fs))
             /\ pc' = IF gone # {} THEN "emit_cleanup" ELSE "done"
    /\ UNCHANGED << jobVars, appVars, temp_file_name, list_file,
                    command_list_group, i, _is_stopped, process, popened,
                    children, exc, events, stopVars >>

(* run(), line 268: job.cleanup() raises: os.remove of the list file, line *)
(* 39, is outside any try, so OSError leaves cleanup() and then run().     *)
CleanupRaises ==
    /\ pc = "finally"
    /\ TempToRemove(temp_file_name, fs) # {}
    /\ cleanups' = cleanups + 1
    /\ remove_failed' = TRUE
    /\ pc' = "raised"
    /\ UNCHANGED << jobVars, appVars, fs, temp_file_name, list_file,
                    command_list_group, i, _is_stopped, process, popened,
                    children, exc, events, stopVars >>

(* run(), lines 269-270 *)
EmitCleanup ==
    /\ pc = "emit_cleanup"
    /\ Emit(Event("progress", "cleanup", 0, 0))
    /\ pc' = "done"
    /\ UNCHANGED << jobVars, appVars, fs, temp_file_name, list_file,
                    command_list_group, i, _is_stopped, process, popened,
                    children, exc, cleanups, remove_failed, stopVars >>

\* run() has returned, or has ended with an exception: QThread.isRunning()
\* is false.
RunEnded == pc \in {"done", "raised"}

(* closeEvent, lines 602-603: the caller thread calls stop() while         *)
(* self.worker is set and the worker thread is running.                    *)
StopCall ==
    /\ stop_pc = "idle"
    /\ worker # 0
    /\ ~RunEnded
    /\ stop_pc' = "set_flag"
    /\ live_at_stop' = { c \in DOMAIN children : children[c].state = "running" }
    /\ UNCHANGED << jobVars, appVars, fs, temp_file_name, list_file,
                    command_list_group, i, pc, _is_stopped, process, popened,
                    children, exc, events, cleanups, remove_failed >>

(* stop(), line 273 *)
StopSetFlag ==
    /\ stop_pc = "set_flag"
    /\ _is_stopped' = TRUE
    /\ stop_pc' = "test_process"
    /\ UNCHANGED << jobVars, appVars, fs, temp_file_name, list_file,
                    command_list_group, i, pc, process, popened, children,
                    exc, events, cleanups, remove_failed, live_at_stop >>

(* stop(), line 274: "self.process and ...": nothing more when it is None. *)
StopTestProcess ==
    /\ stop_pc = "test_process"
    /\ stop_pc' = IF process = 0 THEN "done" ELSE "poll"
    /\ UNCHANGED << jobVars, appVars, fs, temp_file_name, list_file,
                    command_list_group, i, pc, _is_stopped, process, popened,
                    children, exc, events, cleanups, remove_failed,
                    live_at_stop >>

(* stop(), line 274: "self.process.poll() is None": the process self.process *)
(* names now is still running.                                             *)
StopPoll ==
    /\ stop_pc = "poll"
    /\ stop_pc' = IF children[process].state = "running" THEN "terminate" ELSE "done"
    /\ UNCHANGED << jobVars, appVars, fs, temp_file_name, list_file,
                    command_list_group, i, pc, _is_stopped, process, popened,
                    children, exc, events, cleanups, remove_failed,
                    live_at_stop >>

(* stop(), line 275: self.process.terminate() signals the process that     *)
(* self.process names now; it does nothing to a process that has exited.   *)
StopTerminate ==
    /\ stop_pc = "terminate"
    /\ children' = IF children[process].state = "running"
                   THEN [children EXCEPT ![process].signalled = TRUE]
                   ELSE children
    /\ stop_pc' = "emit"
    /\ UNCHANGED << jobVars, appVars, fs, temp_file_name, list_file,
                    command_list_group, i, pc, _is_stopped, process, popened,
                    exc, events, cleanups, remove_failed, live_at_stop >>

(* stop(), line 276 *)
StopEmit ==
    /\ stop_pc = "emit"
    /\ Emit(Event("progress", "stop_sent", 0, 0))
    /\ stop_pc' = "done"
    /\ UNCHANGED << jobVars, appVars, fs, temp_file_name, list_file,
                    command_list_group, i, pc, _is_stopped, process, popened,
                    children, exc, cleanups, remove_failed, live_at_stop >>

\* Whether command vector cmd holds the token tok.
HasToken(cmd, tok) == \E k \in DOMAIN cmd : cmd[k] = tok

(* A running child writes one line to the pipe the worker reads.           *)
ChildWrite ==
    /\ \E c \in DOMAIN children :
         /\ children[c].state = "running"
         /\ children[c].written < MaxLines
         /\ children' = [children EXCEPT ![c].pipe = @ + 1, ![c].written = @ + 1]
    /\ UNCHANGED << jobVars, appVars, fs, temp_file_name, list_file,
                    command_list_group, i, pc, _is_stopped, process, popened,
                    exc, events, cleanups, remove_failed, stopVars >>

(* A running child that was given -pass writes its statistics file.        *)
ChildWriteStats ==
    /\ \E c \in DOMAIN children :
         /\ children[c].state = "running"
         /\ HasToken(command_list_group[children[c].pass], "-pass")
    /\ PassLogFile \notin fs
    /\ fs' = fs \cup {PassLogFile}
    /\ UNCHANGED << jobVars, appVars, temp_file_name, list_file,
                    command_list_group, i, pc, _is_stopped, process, popened,
                    children, exc, events, cleanups, remove_failed,
                    stopVars >>

(* A running child exits, by itself or because it was signalled.           *)
ChildExit ==
    /\ \E c \in DOMAIN children :
         /\ children[c].state = "running"
         /\ \E rc \in ExitCodes(children[c]) :
              children' = [children EXCEPT ![c].state = "exited",
                                           ![c].returncode = rc]
    /\ UNCHANGED << jobVars, appVars, fs, temp_file_name, list_file,
                    command_list_group, i, pc, _is_stopped, process, popened,
                    exc, events, cleanups, remove_failed, stopVars >>

(* Lines 227 and 255 without their tests of the stop flag: the flag is     *)
(* looked at only while output lines are read.                             *)
LoopHead_NoFlag ==
    /\ pc = "loop"
    /\ pc' = IF i >= Len(command_list_group) THEN "after_loop" ELSE "emit_start"
    /\ UNCHANGED << jobVars, appVars, fs, temp_file_name, list_file,
                    command_list_group, i, _is_stopped, process, popened,
                    children, exc, events, cleanups, remove_failed,
                    stopVars >>

CheckStop_NoFlag ==
    /\ pc = "check_stop"
    /\ pc' = "loop"
    /\ i' = i + 1
    /\ UNCHANGED << jobVars, appVars, fs, temp_file_name, list_file,
                    command_list_group, _is_stopped, process, popened,
                    children, exc, events, cleanups, remove_failed,
                    stopVars >>

Worker_NoFlagBetweenPasses ==
    \/ BuildCommands \/ BuildCommandsRaises \/ LoopHead_NoFlag \/ EmitPassStart
    \/ EmitCommand \/ Popen \/ PopenRaises \/ AssignProcess
    \/ ReadLine \/ ReadEOF \/ ReadRaises \/ LineCheck \/ EmitLine \/ Wait
    \/ CheckFail \/ EmitError \/ CheckStop_NoFlag \/ EmitAborted
    \/ AfterLoop \/ EmitFinished \/ Except \/ EmitException
    \/ Cleanup \/ CleanupRaises \/ EmitCleanup

Worker ==
    \/ BuildCommands \/ BuildCommandsRaises \/ LoopHead \/ EmitPassStart
    \/ EmitCommand \/ Popen \/ PopenRaises \/ AssignProcess
    \/ ReadLine \/ ReadEOF \/ ReadRaises \/ LineCheck \/ EmitLine \/ Wait
    \/ CheckFail \/ EmitError \/ CheckStop \/ EmitAborted
    \/ AfterLoop \/ EmitFinished \/ Except \/ EmitException
    \/ Cleanup \/ CleanupRaises \/ EmitCleanup

Stop ==
    \/ StopCall \/ StopSetFlag \/ StopTestProcess \/ StopPoll
    \/ StopTerminate \/ StopEmit

Child == ChildWrite \/ ChildWriteStats \/ ChildExit

Next == Worker \/ Stop \/ Child

Spec == Init /\ [][Next]_vars

\* The steps of stop() once it has been called.
StopSteps ==
    \/ StopSetFlag \/ StopTestProcess \/ StopPoll \/ StopTerminate \/ StopEmit

\* A child that stop() has sent the termination signal exits.
SignalledChildExit ==
    /\ ChildExit
    /\ \E c \in DOMAIN children :
         /\ children[c].signalled
         /\ children[c].state = "running"
         /\ children'[c].state = "exited"

(* One run under fair scheduling: the worker thread takes its next step    *)
(* whenever it has one (it has none while it is blocked in the read of line *)
(* 243 or in wait(), line 248), the caller thread finishes a stop() it has  *)
(* begun, and a child that was sent the termination signal exits.  Nothing  *)
(* is assumed of a child that was not signalled: it may write, exit, or do  *)
(* neither.                                                                 *)
FairSpec ==
    /\ Spec
    /\ WF_vars(Worker)
    /\ WF_vars(StopSteps)
    /\ WF_vars(SignalledChildExit)

----------------------------------------------------------------------------
(* Part 2b: VideoEditorApp, the window that starts the workers             *)

\* How many jobs the user submits in one session of the application.
MaxJobs == 2

\* The thread of a worker is executing run(): it was started and run() has
\* not ended.
Running(p) == p \notin {"unstarted", "done", "raised"}

\* VideoEditorApp.__init__: no worker yet, the tabs enabled.
AppInit ==
    /\ job = MergeJob("MergeFilterJob")
    /\ os_name = "posix"
    /\ fs = {}
    /\ temp_file_name = None
    /\ list_file = <<>>
    /\ command_list_group = <<>>
    /\ i = 0
    /\ pc = "unstarted"
    /\ _is_stopped = FALSE
    /\ process = 0
    /\ popened = 0
    /\ children = <<>>
    /\ exc = None
    /\ events = <<>>
    /\ cleanups = 0
    /\ remove_failed = FALSE
    /\ stop_pc = "idle"
    /\ live_at_stop = {}
    /\ tabs_enabled = TRUE
    /\ worker = 0
    /\ delivered = 0
    /\ old = <<>>

(* start_merge / start_recode and start_worker, lines 571-578: reachable   *)
(* only through the buttons inside self.tabs, so only while the tabs are   *)
(* enabled.  The tabs are disabled, a new worker is built for the job and  *)
(* stored in self.worker, and its thread is started.  The thread of the    *)
(* worker self.worker named before, if one was started, goes on from where *)
(* it is; the children it launched are not followed further.               *)
StartWorker ==
    /\ tabs_enabled
    /\ stop_pc = "idle"
    /\ Len(old) + (IF pc = "unstarted" THEN 0 ELSE 1) < MaxJobs
    /\ job' \in WorkerJobs
    /\ tabs_enabled' = FALSE
    /\ old' = IF pc = "unstarted" THEN old
              ELSE Append(old, [pc |-> pc, temp_file_name |-> temp_file_name])
    /\ worker' = Len(old') + 1
    /\ delivered' = 0
    /\ temp_file_name' = None
    /\ list_file' = <<>>
    /\ command_list_group' = <<>>
    /\ i' = 0
    /\ pc' = "build"
    /\ _is_stopped' = FALSE
    /\ process' = 0
    /\ popened' = 0
    /\ children' = <<>>
    /\ exc' = None
    /\ events' = <<>>
    /\ cleanups' = 0
    /\ remove_failed' = FALSE
    /\ UNCHANGED << os_name, fs, stopVars >>

\* The GUI thread is in its event loop and a signal of kind sig, queued from
\* the worker thread, waits for its slot.  (The slot of progress_signal,
\* update_log, only appends to the log widget and is not followed.)
SignalQueued(sig) ==
    /\ stop_pc = "idle"
    /\ delivered < Cardinality({ k \in DOMAIN events : events[k].sig = sig })

(* job_finished, lines 584-589: the slot of finished_signal enables the    *)
(* tabs again and forgets the worker.                                      *)
JobFinished ==
    /\ SignalQueued("finished")
    /\ delivered' = delivered + 1
    /\ tabs_enabled' = TRUE
    /\ worker' = 0
    /\ UNCHANGED << jobVars, fs, temp_file_name, list_file,
                    command_list_group, i, pc, _is_stopped, process, popened,
                    children, exc, events, cleanups, remove_failed, stopVars,
                    old >>

(* job_error, lines 591-596: the slot of error_signal does the same.       *)
JobError ==
    /\ SignalQueued("error")
    /\ delivered' = delivered + 1
    /\ tabs_enabled' = TRUE
    /\ worker' = 0
    /\ UNCHANGED << jobVars, fs, temp_file_name, list_file,
                    command_list_group, i, pc, _is_stopped, process, popened,
                    children, exc, events, cleanups, remove_failed, stopVars,
                    old >>

(* closeEvent, lines 602-605, when self.worker is None or its thread is    *)
(* not running: the event is accepted at once and the window closes.       *)
CloseAccept ==
    /\ stop_pc = "idle"
    /\ worker = 0 \/ RunEnded
    /\ stop_pc' = "done"
    /\ UNCHANGED << jobVars, fs, temp_file_name, list_file,
                    command_list_group, i, pc, _is_stopped, process, popened,
                    children, exc, events, cleanups, remove_failed,
                    live_at_stop, appVars >>

(* run(), line 268, in the thread of an earlier worker: job.cleanup() of   *)
(* that worker's job, on the files that exist now.                         *)
OldCleanup ==
    /\ \E k \in DOMAIN old :
         /\ old[k].pc = "finally"
         /\ \E removed \in SUBSET LogFiles(fs) :
              LET gone == TempToRemove(old[k].temp_file_name, fs) \cup removed
              IN  /\ fs' = fs \ gone
                  /\ old' = [old EXCEPT ![k].pc =
                                IF gone # {} THEN "emit_cleanup" ELSE "done"]
    /\ UNCHANGED << jobVars, temp_file_name, list_file, command_list_group, i,
                    pc, _is_stopped, process, popened, children, exc, events,
                    cleanups, remove_failed, stopVars, tabs_enabled, worker,
                    delivered >>

(* run(), line 268, in the thread of an earlier worker: cleanup() raises.  *)
OldCleanupRaises ==
    /\ \E k \in DOMAIN old :
         /\ old[k].pc = "finally"
         /\ TempToRemove(old[k].temp_file_name, fs) # {}
         /\ old' = [old EXCEPT ![k].pc = "raised"]
    /\ UNCHANGED << jobVars, fs, temp_file_name, list_file,
                    command_list_group, i, pc, _is_stopped, process, popened,
                    children, exc, events, cleanups, remove_failed, stopVars,
                    tabs_enabled, worker, delivered >>

(* run(), lines 269-270, in the thread of an earlier worker: its cleanup   *)
(* message goes to update_log.                                             *)
OldEmitCleanup ==
    /\ \E k \in DOMAIN old :
         /\ old[k].pc = "emit_cleanup"
         /\ old' = [old EXCEPT ![k].pc = "done"]
    /\ UNCHANGED << jobVars, fs, temp_file_name, list_file,
                    command_list_group, i, pc, _is_stopped, process, popened,
                    children, exc, events, cleanups, remove_failed, stopVars,
                    tabs_enabled, worker, delivered >>

Gui == StartWorker \/ JobFinished \/ JobError \/ CloseAccept

OldWorker == OldCleanup \/ OldCleanupRaises \/ OldEmitCleanup

AppNext == Gui \/ Stop \/ Worker \/ OldWorker \/ Child

AppSpec == AppInit /\ [][AppNext]_vars

----------------------------------------------------------------------------
(* Part 2c: the job objects on their own: build_commands() and cleanup()   *)
(* called directly on a job, outside a worker                              *)

\* How many times cleanup() is called on one job.
MaxCleanupCalls == 2

\* The second statistics file of a two-pass encode (line 42: ".mbtree").
MbtreeFile == PassLogFile \o ".mbtree"

\* The values RecodeJob.__init__ is given: the items of the combo boxes of
\* create_recode_tab cut at the first blank, the texts of its line edits
\* (empty or not), and for v_mode also the 'copy' of the last branch of
\* build_commands.
RecodeConfigs ==
    [class : {"RecodeJob"}, file_list : {<<>>}, output_file : {"out.mp4"},
     input_file : {"in.mp4"},
     v_codec : {"libx264", "libx265", "copy"},
     v_mode : {"CRF", "2-Pass", "copy"},
     v_crf : {"", "23"},
     v_preset : {"", "medium"},
     v_bitrate : {"", "5000k"},
     a_codec : {"aac", "libmp3lame", "copy"},
     a_mode : {"ABR", "VBR"},
     a_bitrate : {"", "128k"},
     a_qscale : {"4"},
     scale : {"", "1280:-1"}]

\* The most files a merge job is given (start_merge asks for two at least).
MaxFiles == 3

\* The k-th file the user can add to the list: paths written with either
\* directory separator.
Path(k) ==
    IF k % 2 = 1 THEN "C:\\v\\f" \o ToString(k) \o ".mp4"
    ELSE "/v/f" \o ToString(k) \o ".mp4"

\* The file lists of start_merge: two or more files, in any order.
FileLists ==
    { [n \in 1..Len(order) |-> Path(order[n])] :
        order \in { o \in UNION { [1..n -> 1..MaxFiles] : n \in 2..MaxFiles } :
                      \A a, b \in DOMAIN o : a # b => o[a] # o[b] } }

\* MergeDemuxerJob(file_list, output_file) / MergeFilterJob(file_list, output_file)
MergeJobOf(cls, files) == [MergeJob(cls) EXCEPT !.file_list = files]

MergeConfigs ==
    { MergeJobOf(cls, files) :
        cls \in {"MergeDemuxerJob", "MergeFilterJob"}, files \in FileLists }

JobConfigs == MergeConfigs \cup RecodeConfigs

(* BaseMediaJob.cleanup as a function of the job's temp_file_name, the     *)
(* files that exist, and the files whose os.remove raises OSError (locked):*)
(* the files left, whether an exception left cleanup(), and the files the  *)
(* returned message names (none: the message is None).  os.remove raises   *)
(* for a file that does not exist, too.                                    *)
cleanup(tmp, files, locked) ==
    LET target == TempToRemove(tmp, files)
        raised == \E f \in target : f \notin files \/ f \in locked
        gone   == IF raised THEN {} ELSE target \cup (LogFiles(files) \ locked)
    IN  [files |-> files \ gone, raised |-> raised, cleaned |-> gone]

\* A job as its constructor leaves it, in a working directory that may hold
\* statistics files.
JobInit ==
    /\ job \in JobConfigs
    /\ os_name \in {"posix", "nt"}
    /\ fs \in SUBSET {PassLogFile, MbtreeFile}
    /\ temp_file_name = None
    /\ list_file = <<>>
    /\ command_list_group = <<>>
    /\ i = 0
    /\ pc = "job"
    /\ _is_stopped = FALSE
    /\ process = 0
    /\ popened = 0
    /\ children = <<>>
    /\ exc = None
    /\ events = <<>>
    /\ cleanups = 0
    /\ remove_failed = FALSE
    /\ stop_pc = "idle"
    /\ live_at_stop = {}
    /\ tabs_enabled = TRUE
    /\ worker = 0
    /\ delivered = 0
    /\ old = <<>>

(* job.build_commands() *)
JobBuildCommands ==
    /\ pc = "job"
    /\ command_list_group = <<>>
    /\ cleanups = 0
    /\ IF job.class = "MergeDemuxerJob"
       THEN /\ fs' = fs \cup {TempListFile}
            /\ list_file' = ListFileLines(job, os_name)
            /\ temp_file_name' = TempListFile
       ELSE UNCHANGED << fs, temp_file_name, list_file >>
    /\ command_list_group' = build_commands(job, temp_file_name', os_name)
    /\ UNCHANGED << jobVars, appVars, i, pc, _is_stopped, process, popened,
                    children, exc, events, cleanups, remove_failed,
                    stopVars >>

(* job.cleanup(), with any set of the existing files locked.               *)
JobCleanup ==
    /\ pc = "job"
    /\ cleanups < MaxCleanupCalls
    /\ cleanups' = cleanups + 1
    /\ \E locked \in SUBSET fs :
         LET r == cleanup(temp_file_name, fs, locked)
         IN  /\ fs' = r.files
             /\ remove_failed' = (r.raised \/ LogFiles(fs) \cap locked # {})
    /\ UNCHANGED << jobVars, appVars, temp_file_name, list_file,
                    command_list_group, i, pc, _is_stopped, process, popened,
                    children, exc, events, stopVars >>

JobNext == JobBuildCommands \/ JobCleanup

JobSpec == JobInit /\ [][JobNext]_vars

----------------------------------------------------------------------------
(* Part 2d: MergeWorker of src/video_merge.py, the earlier worker, which    *)
(* has no stop flag; job.class stands for its merge_method                  *)

\* run_filter_merge, lines 78-141: the command, built as MergeFilterJob does.
run_filter_merge_command(j) == MergeFilterCommands(j)[1]

\* run_demuxer_merge, lines 55-59.
run_demuxer_merge_command(j, tmp) == MergeDemuxerCommands(j, tmp)[1]

\* MergeWorker.__init__ and start(): the thread is at the top of run().
LegacyInit ==
    /\ job \in { MergeJob("MergeDemuxerJob"), MergeJob("MergeFilterJob") }
    /\ os_name = "posix"
    /\ fs = {}
    /\ temp_file_name = None
    /\ list_file = <<>>
    /\ command_list_group = <<>>
    /\ i = 0
    /\ pc = "mw_run"
    /\ _is_stopped = FALSE
    /\ process = 0
    /\ popened = 0
    /\ children = <<>>
    /\ exc = None
    /\ events = <<>>
    /\ cleanups = 0
    /\ remove_failed = FALSE
    /\ stop_pc = "idle"
    /\ live_at_stop = {}
    /\ tabs_enabled = FALSE
    /\ worker = 1
    /\ delivered = 0
    /\ old = <<>>

(* run(), lines 29-32, and the first emit of the method chosen (line 45 or *)
(* line 67).                                                               *)
MWRun ==
    /\ pc = "mw_run"
    /\ Emit(Event("progress", "start", 0, 0))
    /\ pc' = IF job.class = "MergeDemuxerJob" THEN "mw_write" ELSE "mw_note"
    /\ UNCHANGED << jobVars, appVars, fs, temp_file_name, list_file,
                    command_list_group, i, _is_stopped, process, popened,
                    children, exc, cleanups, remove_failed, stopVars >>

(* run_demuxer_merge, lines 47-51: the list file is written and its name   *)
(* stored.                                                                 *)
MWWriteList ==
    /\ pc = "mw_write"
    /\ fs' = fs \cup {TempListFile}
    /\ list_file' = ListFileLines(job, os_name)
    /\ temp_file_name' = TempListFile
    /\ pc' = "mw_emit_tmp"
    /\ UNCHANGED << jobVars, appVars, command_list_group, i, _is_stopped,
                    process, popened, children, exc, events, cleanups,
                    remove_failed, stopVars >>

(* run_demuxer_merge, line 47: the list file cannot be created.            *)
MWWriteListRaises ==
    /\ pc = "mw_write"
    /\ exc' = "build"
    /\ pc' = "mw_except"
    /\ UNCHANGED << jobVars, appVars, fs, temp_file_name, list_file,
                    command_list_group, i, _is_stopped, process, popened,
                    children, events, cleanups, remove_failed, stopVars >>

(* run_demuxer_merge, line 53 *)
MWEmitTemp ==
    /\ pc = "mw_emit_tmp"
    /\ Emit(Event("progress", "temp_created", 0, 0))
    /\ pc' = "mw_command"
    /\ UNCHANGED << jobVars, appVars, fs, temp_file_name, list_file,
                    command_list_group, i, _is_stopped, process, popened,
                    children, exc, cleanups, remove_failed, stopVars >>

(* run_filter_merge, line 68 *)
MWEmitNote ==
    /\ pc = "mw_note"
    /\ Emit(Event("progress", "normalize", 0, 0))
    /\ pc' = "mw_graph"
    /\ UNCHANGED << jobVars, appVars, fs, temp_file_name, list_file,
                    command_list_group, i, _is_stopped, process, popened,
                    children, exc, cleanups, remove_failed, stopVars >>

(* run_filter_merge, line 125 *)
MWEmitGraph ==
    /\ pc = "mw_graph"
    /\ Emit(Event("progress", "filter", 0, 0))
    /\ pc' = "mw_command"
    /\ UNCHANGED << jobVars, appVars, fs, temp_file_name, list_file,
                    command_list_group, i, _is_stopped, process, popened,
                    children, exc, cleanups, remove_failed, stopVars >>

(* The command of lines 55-59 or 128-141 and execute_ffmpeg_command, line  *)
(* 148.                                                                    *)
MWEmitCommand ==
    /\ pc = "mw_command"
    /\ command_list_group' =
         << IF job.class = "MergeDemuxerJob"
            THEN run_demuxer_merge_command(job, temp_file_name)
            ELSE run_filter_merge_command(job) >>
    /\ Emit(Event("progress", "command", 1, 0))
    /\ pc' = "mw_popen"
    /\ UNCHANGED << jobVars, appVars, fs, temp_file_name, list_file, i,
                    _is_stopped, process, popened, children, exc, cleanups,
                    remove_failed, stopVars >>

(* execute_ffmpeg_command, lines 150-157: Popen launches the child.        *)
MWPopen ==
    /\ pc = "mw_popen"
    /\ children' = Append(children, NewChild(1))
    /\ popened' = Len(children) + 1
    /\ pc' = "mw_assign"
    /\ UNCHANGED << jobVars, appVars, fs, temp_file_name, list_file,
                    command_list_group, i, _is_stopped, process, exc, events,
                    cleanups, remove_failed, stopVars >>

(* execute_ffmpeg_command, lines 150-157: Popen raises.                    *)
MWPopenRaises ==
    /\ pc = "mw_popen"
    /\ exc' = "launch"
    /\ pc' = "mw_except"
    /\ UNCHANGED << jobVars, appVars, fs, temp_file_name, list_file,
                    command_list_group, i, _is_stopped, process, popened,
                    children, events, cleanups, remove_failed, stopVars >>

(* execute_ffmpeg_command, line 150: the store into self.process.          *)
MWAssignProcess ==
    /\ pc = "mw_assign"
    /\ process' = popened
    /\ pc' = "mw_read"
    /\ UNCHANGED << jobVars, appVars, fs, temp_file_name, list_file,
                    command_list_group, i, _is_stopped, popened, children,
                    exc, events, cleanups, remove_failed, stopVars >>

(* execute_ffmpeg_command, line 159: the iterator yields a line.           *)
MWReadLine ==
    /\ pc = "mw_read"
    /\ children[process].pipe > 0
    /\ children' = [children EXCEPT ![process].pipe = @ - 1]
    /\ pc' = "mw_emit_line"
    /\ UNCHANGED << jobVars, appVars, fs, temp_file_name, list_file,
                    command_list_group, i, _is_stopped, process, popened, exc,
                    events, cleanups, remove_failed, stopVars >>

(* execute_ffmpeg_command, line 159: reading raises.                       *)
MWReadRaises ==
    /\ pc = "mw_read"
    /\ children[process].pipe > 0
    /\ children' = [children EXCEPT ![process].pipe = @ - 1]
    /\ exc' = "read"
    /\ pc' = "mw_except"
    /\ UNCHANGED << jobVars, appVars, fs, temp_file_name, list_file,
                    command_list_group, i, _is_stopped, process, popened,
                    events, cleanups, remove_failed, stopVars >>

(* execute_ffmpeg_command, line 159: the child has closed its output.      *)
MWReadEOF ==
    /\ pc = "mw_read"
    /\ children[process].pipe = 0
    /\ children[process].state = "exited"
    /\ pc' = "mw_wait"
    /\ UNCHANGED << jobVars, appVars, fs, temp_file_name, list_file,
                    command_list_group, i, _is_stopped, process, popened,
                    children, exc, events, cleanups, remove_failed, stopVars >>

(* execute_ffmpeg_command, line 160 *)
MWEmitLine ==
    /\ pc = "mw_emit_line"
    /\ Emit(Event("progress", "line", 1,
                  children[process].written - children[process].pipe))
    /\ pc' = "mw_read"
    /\ UNCHANGED << jobVars, appVars, fs, temp_file_name, list_file,
                    command_list_group, i, _is_stopped, process, popened,
                    children, exc, cleanups, remove_failed, stopVars >>

(* execute_ffmpeg_command, line 162 *)
MWWait ==
    /\ pc = "mw_wait"
    /\ children[process].state = "exited"
    /\ children' = [children EXCEPT ![process].waited = TRUE]
    /\ pc' = "mw_check"
    /\ UNCHANGED << jobVars, appVars, fs, temp_file_name, list_file,
                    command_list_group, i, _is_stopped, process, popened, exc,
                    events, cleanups, remove_failed, stopVars >>

\* execute_ffmpeg_command, line 164: the test of the exit status.
MWSucceeded(c) == c.returncode = 0

(* execute_ffmpeg_command, lines 164-167 *)
MWReport ==
    /\ pc = "mw_check"
    /\ Emit(IF MWSucceeded(children[process])
            THEN Event("finished", "done", 0, 0)
            ELSE Event("error", "pass_failed", 1, children[process].returncode))
    /\ pc' = "mw_finally"
    /\ UNCHANGED << jobVars, appVars, fs, temp_file_name, list_file,
                    command_list_group, i, _is_stopped, process, popened,
                    children, exc, cleanups, remove_failed, stopVars >>

(* run(), lines 36-37 *)
MWExcept ==
    /\ pc = "mw_except"
    /\ Emit(Event("error", "exception", 0, 0))
    /\ pc' = "mw_finally"
    /\ UNCHANGED << jobVars, appVars, fs, temp_file_name, list_file,
                    command_list_group, i, _is_stopped, process, popened,
                    children, exc, cleanups, remove_failed, stopVars >>

(* run(), lines 38-41: the finally clause removes the list file, if there  *)
(* is one, and says so.                                                    *)
MWFinally ==
    /\ pc = "mw_finally"
    /\ cleanups' = cleanups + 1
    /\ LET gone == TempToRemove(temp_file_name, fs)
       IN  /\ fs' = fs \ gone
           /\ IF gone # {} THEN Emit(Event("progress", "cleanup", 0, 0))
              ELSE events' = events
    /\ pc' = "done"
    /\ UNCHANGED << jobVars, appVars, temp_file_name, list_file,
                    command_list_group, i, _is_stopped, process, popened,
                    children, exc, remove_failed, stopVars >>

(* run(), line 40: os.remove raises.                                       *)
MWFinallyRaises ==
    /\ pc = "mw_finally"
    /\ TempToRemove(temp_file_name, fs) # {}
    /\ cleanups' = cleanups + 1
    /\ remove_failed' = TRUE
    /\ pc' = "raised"
    /\ UNCHANGED << jobVars, appVars, fs, temp_file_name, list_file,
                    command_list_group, i, _is_stopped, process, popened,
                    children, exc, events, stopVars >>

(* closeEvent of video_merge.py, lines 302-303: stop() is called while the *)
(* worker thread is running.                                               *)
MWStopCall ==
    /\ stop_pc = "idle"
    /\ worker # 0
    /\ ~RunEnded
    /\ stop_pc' = "test_process"
    /\ live_at_stop' = { c \in DOMAIN children : children[c].state = "running" }
    /\ UNCHANGED << jobVars, appVars, fs, temp_file_name, list_file,
                    command_list_group, i, pc, _is_stopped, process, popened,
                    children, exc, events, cleanups, remove_failed >>

(* stop(), line 171: "self.process and ...". *)
MWStopTestProcess ==
    /\ stop_pc = "test_process"
    /\ stop_pc' = IF process = 0 THEN "done" ELSE "poll"
    /\ UNCHANGED << jobVars, appVars, fs, temp_file_name, list_file,
                    command_list_group, i, pc, _is_stopped, process, popened,
                    children, exc, events, cleanups, remove_failed,
                    live_at_stop >>

(* stop(), line 171: "self.process.poll() is None". *)
MWStopPoll ==
    /\ stop_pc = "poll"
    /\ stop_pc' = IF children[process].state = "running" THEN "terminate" ELSE "done"
    /\ UNCHANGED << jobVars, appVars, fs, temp_file_name, list_file,
                    command_list_group, i, pc, _is_stopped, process, popened,
                    children, exc, events, cleanups, remove_failed,
                    live_at_stop >>

(* stop(), line 172 *)
MWStopTerminate ==
    /\ stop_pc = "terminate"
    /\ children' = IF children[process].state = "running"
                   THEN [children EXCEPT ![process].signalled = TRUE]
                   ELSE children
    /\ stop_pc' = "emit"
    /\ UNCHANGED << jobVars, appVars, fs, temp_file_name, list_file,
                    command_list_group, i, pc, _is_stopped, process, popened,
                    exc, events, cleanups, remove_failed, live_at_stop >>

(* stop(), line 173 *)
MWStopEmit ==
    /\ stop_pc = "emit"
    /\ Emit(Event("progress", "stop_sent", 0, 0))
    /\ stop_pc' = "done"
    /\ UNCHANGED << jobVars, appVars, fs, temp_file_name, list_file,
                    command_list_group, i, pc, _is_stopped, process, popened,
                    children, exc, cleanups, remove_failed, live_at_stop >>

MergeWorker ==
    \/ MWRun \/ MWWriteList \/ MWWriteListRaises \/ MWEmitTemp \/ MWEmitNote
    \/ MWEmitGraph \/ MWEmitCommand \/ MWPopen \/ MWPopenRaises
    \/ MWAssignProcess \/ MWReadLine \/ MWReadRaises \/ MWReadEOF \/ MWEmitLine
    \/ MWWait \/ MWReport \/ MWExcept \/ MWFinally \/ MWFinallyRaises

MWStop ==
    \/ MWStopCall \/ MWStopTestProcess \/ MWStopPoll \/ MWStopTerminate
    \/ MWStopEmit

LegacyNext == MergeWorker \/ MWStop \/ ChildWrite \/ ChildExit

LegacySpec == LegacyInit /\ [][LegacyNext]_vars

----------------------------------------------------------------------------
(* Part 3: the properties                                                  *)

\* RecodeJob.build_commands, line 195: no job returns more than two commands.
MaxPasses == 2

Range(seq) == { seq[k] : k \in DOMAIN seq }

Terminal(e) == e.sig \in {"finished", "error"}

\* The positions in events of the terminal events emitted so far.
TerminalEvents == { k \in DOMAIN events : Terminal(events[k]) }

\* The child of pass k was launched, has exited and its status is rc.
ExitedWith(k, rc) ==
    /\ k \in DOMAIN children
    /\ children[k].state = "exited"
    /\ children[k].returncode = rc

\* The child of pass k has exited with a status other than 0.
ExitedNonZero(k) ==
    /\ k \in DOMAIN children
    /\ children[k].state = "exited"
    /\ children[k].returncode # 0

\* C1: in every run of run(), whatever its outcome, job.cleanup() is called
\* exactly once: never twice, once by the time the run has ended, and no child
\* process is launched once cleanup has been called.
C1_CleanupExactlyOnce ==
    /\ [](cleanups <= 1 /\ (RunEnded => cleanups = 1))
    /\ [][cleanups >= 1 => Len(children') = Len(children)]_vars

\* C1 witness: a run that caught an exception while reading the output of its
\* first child has ended, with cleanup called.
C1_Witness ==
    /\ RunEnded
    /\ exc = "read"
    /\ Len(children) = 1
    /\ cleanups = 1

\* C2: a run never emits two terminal events (finished_signal, error_signal),
\* and a run during which stop() was never called has emitted exactly one by
\* the time it ends.
C2_OneTerminalEvent ==
    /\ Cardinality(TerminalEvents) <= 1
    /\ (RunEnded /\ stop_pc = "idle") => Cardinality(TerminalEvents) = 1

\* C2 witness: a run nobody stopped has ended after a launch failure, with
\* its one terminal event.
C2_Witness ==
    /\ RunEnded
    /\ stop_pc = "idle"
    /\ exc = "launch"
    /\ Cardinality(TerminalEvents) = 1

\* C3 (as claimed): once the terminal event has been emitted, no further event
\* is emitted: a terminal event is always the last of events.
C3_TerminalEventIsLast ==
    \A k \in DOMAIN events : Terminal(events[k]) => k = Len(events)

\* C4: a child of pass k that exits non-zero is the last child launched; an
\* error_signal for a failed pass names that pass and its exit code; and the
\* worker gets past the exit-status test of line 251 for such a child without
\* reporting it only when the stop flag is set.
C4_FailureShortCircuit ==
    /\ \A k \in DOMAIN children : ExitedNonZero(k) => Len(children) = k
    /\ \A e \in Range(events) :
         e.msg = "pass_failed" =>
            /\ ExitedNonZero(e.pass)
            /\ children[e.pass].pass = e.pass
            /\ e.code = children[e.pass].returncode
    /\ \A k \in DOMAIN children :
         (ExitedNonZero(k) /\ children[k].waited /\ pc # "check_fail" /\ ~_is_stopped)
            => \/ pc = "emit_error"
               \/ Event("error", "pass_failed", k, children[k].returncode)
                     \in Range(events)

\* C4 witness: pass 1 of a two-pass job has failed, the failure has been
\* reported and the run has ended.
C4_Witness ==
    /\ RunEnded
    /\ Len(command_list_group) = 2
    /\ Event("error", "pass_failed", 1, 1) \in Range(events)

\* C5: if the stop flag is set while the child of pass k has not yet been
\* waited for (process.wait() has not returned for it), no child of a later
\* pass is ever launched.
C5_NoLaunchAfterStop ==
    \A k \in 1..MaxPasses :
        []((_is_stopped /\ Len(children) = k /\ ~children[k].waited)
              => [](Len(children) <= k))

\* C5 witness: stop() was called while the child of pass 1 of a two-pass job
\* was running, and the run has ended with that child the only one launched.
C5_Witness ==
    /\ RunEnded
    /\ _is_stopped
    /\ live_at_stop = {1}
    /\ Len(command_list_group) = 2
    /\ Len(children) = 1

\* Every pass of the pass sequence was launched, in order, and the run has
\* seen each exit with status 0.
AllPassesSucceeded ==
    /\ command_list_group # <<>>
    /\ Len(children) = Len(command_list_group)
    /\ \A k \in DOMAIN children :
         children[k].pass = k /\ children[k].waited /\ ExitedWith(k, 0)

FinishedEmitted == \E e \in Range(events) : e.sig = "finished"

\* C6: finished_signal is emitted only when every pass was launched in order
\* and exited 0, and only when the stop flag was unset at the test before it;
\* and a run nobody stopped in which every pass exited 0 has emitted it by the
\* time it ends.
C6_SuccessOnlyAfterAllPasses ==
    /\ []((FinishedEmitted \/ pc = "emit_finished") => AllPassesSucceeded)
    /\ []((RunEnded /\ stop_pc = "idle" /\ AllPassesSucceeded) => FinishedEmitted)
    /\ [][(pc # "emit_finished" /\ pc' = "emit_finished") => ~_is_stopped]_vars

\* C6 witness: a two-pass run nobody stopped has ended with finished_signal.
C6_Witness ==
    /\ RunEnded
    /\ stop_pc = "idle"
    /\ Len(children) = 2
    /\ FinishedEmitted

\* C7: children are launched in pass order, at most one is running at any
\* time, and every child but the last launched has exited and been waited for.
C7_OnePassAtATime ==
    /\ \A k \in DOMAIN children : children[k].pass = k
    /\ Cardinality({ k \in DOMAIN children : children[k].state = "running" }) <= 1
    /\ \A k \in DOMAIN children :
         k < Len(children) => children[k].state = "exited" /\ children[k].waited

\* C7 witness: the child of pass 2 is running after that of pass 1 was
\* waited for.
C7_Witness ==
    /\ Len(children) = 2
    /\ children[1].waited
    /\ children[2].state = "running"

ExceptionEvent == Event("error", "exception", 0, 0)

\* The worker has left the except clause (or never entered it) and is in or
\* past the finally clause.
PastHandler == pc \in {"finally", "emit_cleanup", "done", "raised"}

\* C8 (as claimed): a run that caught an exception while launching a child or
\* reading its output has, when it ends, emitted error_signal for it and
\* called cleanup, whether or not the stop flag was set.
C8_ExceptionAlwaysReported ==
    (RunEnded /\ exc \in {"launch", "read"})
        => (ExceptionEvent \in Range(events) /\ cleanups = 1)

\* C8 (amended): a run that caught such an exception calls cleanup once before
\* it ends and emits no terminal event other than the error_signal for the
\* exception; the exception goes unreported only in a run whose stop flag is
\* set, and an except clause that finds the flag set emits nothing.
C8_ExceptionReportedUnlessStopped ==
    /\ []((RunEnded /\ exc \in {"launch", "read"}) => cleanups = 1)
    /\ [](exc \in {"launch", "read"}
             => \A k \in TerminalEvents : events[k] = ExceptionEvent)
    /\ []((exc \in {"launch", "read"} /\ PastHandler
              /\ ExceptionEvent \notin Range(events)) => _is_stopped)
    /\ [][(pc = "except" /\ pc' # "except" /\ _is_stopped)
             => (pc' = "finally" /\ events' = events)]_vars

\* C8 witness: a run that caught a read exception with the stop flag set has
\* ended without any terminal event, after cleanup.
C8_Witness ==
    /\ RunEnded
    /\ exc = "read"
    /\ _is_stopped
    /\ TerminalEvents = {}
    /\ cleanups = 1

\* The lines the worker has taken from the pipe of child c, and those of
\* them it has passed on as progress events.
LinesTaken(c) == children[c].written - children[c].pipe

LinesEmitted(c) ==
    Cardinality({ k \in DOMAIN events :
                    events[k].msg = "line" /\ events[k].pass = c })

\* The worker left the reading loop of the current child through the break of
\* line 245: it took a line that it neither emitted nor failed to decode.
BrokeOnStop ==
    /\ process # 0
    /\ pc \notin {"line_check", "emit_line"}
    /\ exc # "read"
    /\ LinesTaken(process) > LinesEmitted(process)

\* C9 (as claimed): after the worker has seen the stop flag while reading a
\* child's output, it does not wait for that child: it is never at
\* process.wait() with the child still running.
C9_NoWaitAfterBreak ==
    BrokeOnStop => ~(pc = "wait" /\ children[process].state = "running")

\* C9 (amended): after the worker has seen the stop flag while reading a
\* child's output, it takes no further line, stays at process.wait() until
\* that child has exited, launches no later pass, and ends the run with the
\* "pass aborted" progress event and no terminal event, cleanup coming only
\* after the wait.
C9_BreakThenWait ==
    BrokeOnStop =>
        /\ _is_stopped
        /\ LinesTaken(process) = LinesEmitted(process) + 1
        /\ Len(children) = process
        /\ (pc = "wait" \/ children[process].waited)
        /\ (cleanups >= 1 => children[process].waited)
        /\ (RunEnded => /\ Event("progress", "aborted", process, 0) \in Range(events)
                        /\ TerminalEvents = {})

\* C9 witness: a run that broke out of the reading loop of its second child
\* has ended.
C9_Witness ==
    /\ BrokeOnStop
    /\ RunEnded
    /\ process = 2

\* C10 (as claimed): when stop() has returned, every child that was running
\* when stop() was called, and is still running, has been sent the
\* termination signal.
C10_RunningChildIsSignalled ==
    stop_pc = "done" =>
        \A c \in live_at_stop :
            children[c].state = "running" => children[c].signalled

\* A pass is current and the worker has not yet evaluated its exit status
\* (lines 231-251, up to and including the test of line 251).
PassInProgress ==
    pc \in {"emit_start", "emit_cmd", "popen", "assign", "read", "line_check",
            "emit_line", "wait", "check_fail"}

\* C11: once the stop flag is set while a pass is current and its exit status
\* has not been evaluated, the run emits neither error_signal nor
\* finished_signal, whatever exit code the child returns.
C11_CancelNotFailure ==
    []((_is_stopped /\ PassInProgress) => [](TerminalEvents = {}))

\* C11 witness: stop() signalled the running child of pass 1, the child ended
\* with status 255, the worker waited for it, and the run has ended without a
\* terminal event.
C11_Witness ==
    /\ RunEnded
    /\ _is_stopped
    /\ live_at_stop = {1}
    /\ ExitedWith(1, 255)
    /\ children[1].waited
    /\ TerminalEvents = {}

\* C12 (as claimed): a failure to remove a transient artifact during cleanup
\* (the list file or a statistics file) never leaves cleanup(): run() does not
\* end with the exception of a failed removal.
C12_CleanupFailureSwallowed == pc # "raised"

\* C13 (as claimed): no new job is started while the run of an earlier worker,
\* its cleanup step included, is still executing: at no time are two worker
\* runs of the application in progress at once.
C13_OneRunAtATime ==
    Cardinality({ k \in DOMAIN old : Running(old[k].pc) })
        + (IF Running(pc) THEN 1 ELSE 0) <= 1

\* C14 (as claimed): job.cleanup() has been called, and has completed, before
\* finished_signal or error_signal is emitted: whenever a terminal event has
\* been emitted, cleanup has already run.
C14_CleanupBeforeTerminal == TerminalEvents # {} => cleanups >= 1

\* None of the transient artifacts exists: neither the list file of a
\* MergeDemuxerJob nor a file whose name starts with pass_log_prefix.
NoArtifacts(files) == TempListFile \notin files /\ LogFiles(files) = {}

\* C15 (as claimed): once run() has returned, in any outcome, and no removal
\* of cleanup() has failed, no transient artifact remains: the list file does
\* not exist and no file named ffmpeg2pass-log* exists.
C15_NoArtifactsRemain == (RunEnded /\ ~remove_failed) => NoArtifacts(fs)

\* The second way C15 fails: run() has returned after an exception raised
\* while a two-pass child's output was read, the child is still running, and
\* its statistics file exists although no removal failed.
C15_StatsAfterCleanup ==
    ~(/\ RunEnded /\ ~remove_failed /\ exc = "read"
      /\ temp_file_name = None /\ TempListFile \notin fs
      /\ PassLogFile \in fs)

\* C16 (as claimed): cleanup touches only the job's own transient artifacts:
\* no step of the run of a MergeDemuxerJob deletes a file other than its
\* list file, and no step of the run of a MergeFilterJob deletes any file.
C16_CleanupOwnArtifactsOnly ==
    [][ /\ job.class = "MergeDemuxerJob" => (fs \ fs') \subseteq {TempListFile}
        /\ job.class = "MergeFilterJob" => fs \subseteq fs' ]_vars

\* None of the job's transient artifacts exists: the list file the job
\* recorded, if any, and every file named ffmpeg2pass-log*.
ArtifactsAbsent == temp_file_name \notin fs /\ LogFiles(fs) = {}

\* C17: cleanup() on a job whose transient artifacts do not exist (never
\* created, or already removed) raises nothing, removes nothing and returns
\* no message; and a second cleanup() right after a first leaves the files
\* the first left, whichever removals fail.
C17_CleanupIdempotent ==
    /\ [](\A locked \in SUBSET fs :
            LET once  == cleanup(temp_file_name, fs, locked)
                twice == cleanup(temp_file_name, once.files,
                                 locked \cap once.files)
            IN  /\ twice.files = once.files
                /\ ArtifactsAbsent
                     => once = [files |-> fs, raised |-> FALSE, cleaned |-> {}])
    /\ [][(cleanups' = cleanups + 1 /\ ArtifactsAbsent)
             => (fs' = fs /\ ~remove_failed')]_vars

\* C17 witness: cleanup() has been called twice on a MergeDemuxerJob whose
\* list file the first call removed; no removal failed and no artifact exists.
C17_Witness ==
    /\ pc = "job"
    /\ cleanups = 2
    /\ temp_file_name = TempListFile
    /\ ArtifactsAbsent
    /\ ~remove_failed

\* Command vector cmd holds the tokens of sub, contiguous and in order.
HasSubSeq(cmd, sub) ==
    \E k \in 0..(Len(cmd) - Len(sub)) : SubSeq(cmd, k + 1, k + Len(sub)) = sub

\* The tokens that follow an occurrence of flag in cmd.
FlagValues(cmd, flag) ==
    { cmd[k + 1] : k \in { n \in 1..(Len(cmd) - 1) : cmd[n] = flag } }

\* build_commands() has been called on the job.
Built == command_list_group # <<>>

\* C18: build_commands() of a RecodeJob in two-pass mode returns exactly two
\* commands; the first ends with -pass 1 -an -f null and the null sink of the
\* platform (NUL on nt, /dev/null elsewhere) and does not hold the output
\* path; the second holds the audio flags and ends with the output path; both
\* carry the same video codec, bitrate and preset flags.
C18_TwoPassCommands ==
    (Built /\ job.class = "RecodeJob" /\ job.v_mode = "2-Pass") =>
        /\ Len(command_list_group) = 2
        /\ LET pass1 == command_list_group[1]
               pass2 == command_list_group[2]
               sink  == IF os_name = "nt" THEN "NUL" ELSE "/dev/null"
           IN  /\ Len(pass1) >= 6
               /\ SubSeq(pass1, Len(pass1) - 5, Len(pass1))
                    = << "-pass", "1", "-an", "-f", "null", sink >>
               /\ ~HasToken(pass1, job.output_file)
               /\ HasSubSeq(pass2, AudioOpts(job))
               /\ pass2[Len(pass2)] = job.output_file
               /\ FlagValues(pass1, "-c:v") = {job.v_codec}
               /\ \A flag \in {"-c:v", "-b:v", "-preset"} :
                    FlagValues(pass1, flag) = FlagValues(pass2, flag)

\* C18 witness: the two commands of a two-pass libx265 job with a bitrate and
\* a preset, built on Windows.
C18_Witness ==
    /\ Built
    /\ job.class = "RecodeJob"
    /\ job.v_mode = "2-Pass"
    /\ job.v_codec = "libx265"
    /\ job.v_bitrate = "5000k"
    /\ job.v_preset = "medium"
    /\ os_name = "nt"
    /\ Len(command_list_group) = 2

\* C19 (as claimed): build_commands() of a RecodeJob whose video codec is
\* 'copy' returns exactly one command, whose video flags are '-c:v','copy'
\* alone (no -b:v, -crf, -preset or -pass), whatever the video mode and the
\* other fields are.
C19_CopyIsOnePass ==
    (Built /\ job.class = "RecodeJob" /\ job.v_codec = "copy") =>
        /\ Len(command_list_group) = 1
        /\ FlagValues(command_list_group[1], "-c:v") = {"copy"}
        /\ \A flag \in {"-b:v", "-crf", "-preset", "-pass"} :
             ~HasToken(command_list_group[1], flag)

\* C20: build_commands() of a RecodeJob in CRF mode with an encoding codec
\* (libx264 or libx265) and non-empty quality and preset values returns
\* exactly one command, which holds -crf with the quality value and -preset
\* with the preset value, and holds neither -b:v nor -pass.
C20_CRFCommand ==
    (/\ Built /\ job.class = "RecodeJob" /\ job.v_mode = "CRF"
     /\ job.v_codec \in {"libx264", "libx265"}
     /\ job.v_crf # "" /\ job.v_preset # "") =>
        /\ Len(command_list_group) = 1
        /\ FlagValues(command_list_group[1], "-c:v") = {job.v_codec}
        /\ FlagValues(command_list_group[1], "-crf") = {job.v_crf}
        /\ FlagValues(command_list_group[1], "-preset") = {job.v_preset}
        /\ ~HasToken(command_list_group[1], "-b:v")
        /\ ~HasToken(command_list_group[1], "-pass")

\* C20 witness: the command of a CRF job with libx264, quality 23, preset
\* medium and a bitrate text that must not show up.
C20_Witness ==
    /\ Built
    /\ job.class = "RecodeJob"
    /\ job.v_mode = "CRF"
    /\ job.v_codec = "libx264"
    /\ job.v_crf = "23"
    /\ job.v_preset = "medium"
    /\ job.v_bitrate = "5000k"
    /\ HasSubSeq(command_list_group[1], << "-crf", "23", "-preset", "medium" >>)

\* The values that follow the occurrences of flag in cmd, in order.
FlagSeq(cmd, flag) ==
    LET RECURSIVE F(_)
        F(n) == IF n = 0 THEN <<>>
                ELSE IF cmd[n] = flag THEN Append(F(n - 1), cmd[n + 1])
                ELSE F(n - 1)
    IN  F(Len(cmd) - 1)

\* str.endswith
EndsWith(s, p) ==
    /\ Len(p) <= Len(s)
    /\ SubSeq(s, Len(s) - Len(p) + 1, Len(s)) = p

\* The steps of a filter graph: the pieces of s between its ';' characters.
Steps(s) ==
    LET cuts == { k \in 1..Len(s) : SubSeq(s, k, k) = ";" }
        RECURSIVE S(_, _)
        S(from, left) ==
            IF left = {} THEN << SubSeq(s, from, Len(s)) >>
            ELSE LET c == CHOOSE k \in left : \A m \in left : k <= m
                 IN  << SubSeq(s, from, c - 1) >> \o S(c + 1, left \ {c})
    IN  S(1, cuts)

\* [v0][a0][v1][a1]...[v{n-1}][a{n-1}]
RECURSIVE InterleavedLabels(_)
InterleavedLabels(n) ==
    IF n = 0 THEN ""
    ELSE InterleavedLabels(n - 1)
         \o "[v" \o ToString(n - 1) \o "][a" \o ToString(n - 1) \o "]"

\* C21: build_commands() of a MergeFilterJob with n >= 2 inputs returns one
\* command with exactly n -i flags naming the inputs in input order; its
\* filter graph has exactly 2n+1 steps joined by ';', a video step and an
\* audio step for each input and last the concat step, whose input labels are
\* [v0][a0]...[v{n-1}][a{n-1}] with n=<n>; and it selects -map [v] -map [a].
C21_ConcatNormalizeCommand ==
    (Built /\ job.class = "MergeFilterJob") =>
        /\ Len(command_list_group) = 1
        /\ LET cmd   == command_list_group[1]
               n     == Len(job.file_list)
               graph == FlagSeq(cmd, "-filter_complex")
           IN  /\ n >= 2
               /\ FlagSeq(cmd, "-i") = job.file_list
               /\ HasSubSeq(cmd, << "-map", "[v]", "-map", "[a]" >>)
               /\ Len(graph) = 1
               /\ LET steps == Steps(graph[1])
                  IN  /\ Len(steps) = 2 * n + 1
                      /\ \A k \in 0..(n - 1) :
                           /\ StartsWith(steps[2 * k + 1], "[" \o ToString(k) \o ":v]")
                           /\ EndsWith(steps[2 * k + 1], "[v" \o ToString(k) \o "]")
                           /\ StartsWith(steps[2 * k + 2], "[" \o ToString(k) \o ":a]")
                           /\ EndsWith(steps[2 * k + 2], "[a" \o ToString(k) \o "]")
                      /\ steps[2 * n + 1] = InterleavedLabels(n) \o "concat=n="
                                              \o ToString(n) \o ":v=1:a=1[v][a]"

\* C21 witness: the command of a MergeFilterJob with three inputs given in
\* the order 3, 1, 2.
C21_Witness ==
    /\ Built
    /\ job.class = "MergeFilterJob"
    /\ job.file_list = << Path(3), Path(1), Path(2) >>
    /\ Len(Steps(FlagSeq(command_list_group[1], "-filter_complex")[1])) = 7

\* The k-th character of s.
Char(s, k) == SubSeq(s, k, k)

\* line has the form file '<path>', where <path> is path with every
\* directory separator sep replaced by '/'.
IsListLine(line, path, sep) ==
    /\ Len(line) = Len(path) + 7
    /\ SubSeq(line, 1, 6) = "file '"
    /\ Char(line, Len(line)) = "'"
    /\ \A k \in 1..Len(path) :
         Char(line, 6 + k) = IF Char(path, k) = sep THEN "/" ELSE Char(path, k)

\* C22: build_commands() of a MergeDemuxerJob writes a list file with exactly
\* one line per input, in input order, each of the form file '<path>' with
\* every directory separator of the platform replaced by '/'; returns one
\* command that reads that list file through the concat demuxer with -safe 0
\* and -c copy; and records the list file in temp_file_name.
C22_ConcatCopyListFile ==
    (Built /\ job.class = "MergeDemuxerJob" /\ cleanups = 0) =>
        /\ Len(list_file) = Len(job.file_list)
        /\ \A k \in DOMAIN job.file_list :
             IsListLine(list_file[k], job.file_list[k],
                        IF os_name = "nt" THEN "\\" ELSE "/")
        /\ temp_file_name # None
        /\ temp_file_name \in fs
        /\ Len(command_list_group) = 1
        /\ LET cmd == command_list_group[1]
           IN  /\ HasSubSeq(cmd, << "-f", "concat", "-safe", "0",
                                    "-i", temp_file_name >>)
               /\ FlagSeq(cmd, "-i") = << temp_file_name >>
               /\ FlagSeq(cmd, "-c") = << "copy" >>
               /\ cmd[Len(cmd)] = job.output_file

\* C22 witness: on Windows, the list file of a job whose first input is
\* written with backslashes holds that path with forward slashes.
C22_Witness ==
    /\ Built
    /\ job.class = "MergeDemuxerJob"
    /\ os_name = "nt"
    /\ job.file_list = << Path(1), Path(2), Path(3) >>
    /\ list_file[1] = "file 'C:/v/f1.mp4'"
    /\ list_file[2] = "file '/v/f2.mp4'"

(* C23: in the MergeWorker of video_merge.py, a run whose child process    *)
(* was terminated by stop() emits no error_signal.                         *)
C23_LegacyCancelNotFailure ==
    (\E c \in DOMAIN children : children[c].signalled)
        => \A k \in DOMAIN events : events[k].sig # "error"

\* The positions of cmd that hold one of the tokens of flags.
Idx(cmd, flags) == { k \in 1..Len(cmd) : cmd[k] \in flags }

\* Every token of group A in cmd stands before every token of group B.
Precedes(cmd, A, B) ==
    \A a \in Idx(cmd, A), b \in Idx(cmd, B) : a < b

VideoFlags == {"-c:v", "-b:v", "-crf", "-preset"}

AudioFlags == {"-c:a", "-b:a", "-q:a"}

FilterFlags == {"-vf"}

Pass1Markers == {"-pass", "-an", "-f"}

\* cmd starts with the engine invocation and the input, then the video flags.
HeadInOrder(cmd) ==
    /\ Len(cmd) >= 6
    /\ SubSeq(cmd, 1, 4) = << "ffmpeg", "-y", "-i", job.input_file >>
    /\ cmd[5] = "-c:v"
    /\ Precedes(cmd, VideoFlags, AudioFlags \cup FilterFlags \cup Pass1Markers)
    /\ (Idx(cmd, FilterFlags) # {}) <=> (job.scale # "")

\* The command of a single pass or of pass 2: audio flags, filter, output.
OutputPassInOrder(cmd) ==
    /\ HeadInOrder(cmd)
    /\ Idx(cmd, AudioFlags) # {}
    /\ Precedes(cmd, AudioFlags, FilterFlags)
    /\ \A k \in Idx(cmd, FilterFlags) : k + 1 < Len(cmd)
    /\ cmd[Len(cmd)] = job.output_file

\* The pass 1 markers and the sink, in sequence.
StatsMarkers == << "-pass", "1", "-an", "-f", "null", null_device(os_name) >>

\* C24 (as claimed): every command of a RecodeJob holds the engine invocation,
\* the input and the video flags, then, in pass 1 of two, the statistics
\* marker, the audio-disabled marker, the null format and the null sink, and
\* in a single pass or pass 2 the audio flags; then the resize filter when a
\* scale expression is given; then the output path, which pass 1 omits.
C24_AssemblyOrder ==
    (Built /\ job.class = "RecodeJob") =>
        \A p \in DOMAIN command_list_group :
            LET cmd == command_list_group[p]
            IN  IF Len(command_list_group) = 2 /\ p = 1
                THEN /\ HeadInOrder(cmd)
                     /\ HasSubSeq(cmd, StatsMarkers)
                     /\ Precedes(cmd, Pass1Markers, FilterFlags)
                     /\ Idx(cmd, AudioFlags) = {}
                     /\ ~HasToken(cmd, job.output_file)
                ELSE OutputPassInOrder(cmd)

\* C24 (amended): as claimed, except that in pass 1 of two the resize filter
\* stands between the video flags and the statistics marker, so that the
\* command ends with the null sink; in pass 2 the statistics marker '-pass 2'
\* stands between the filter and the output path.
C24_AssemblyOrderAsBuilt ==
    (Built /\ job.class = "RecodeJob") =>
        \A p \in DOMAIN command_list_group :
            LET cmd == command_list_group[p]
                n   == Len(cmd)
            IN  IF Len(command_list_group) = 2 /\ p = 1
                THEN /\ HeadInOrder(cmd)
                     /\ SubSeq(cmd, n - 5, n) = StatsMarkers
                     /\ Precedes(cmd, FilterFlags, Pass1Markers)
                     /\ Idx(cmd, AudioFlags) = {}
                     /\ ~HasToken(cmd, job.output_file)
                ELSE /\ OutputPassInOrder(cmd)
                     /\ IF Len(command_list_group) = 2
                        THEN /\ SubSeq(cmd, n - 2, n - 1) = << "-pass", "2" >>
                             /\ Precedes(cmd, FilterFlags, {"-pass"})
                        ELSE Idx(cmd, Pass1Markers) = {}

\* C24 witness: the two commands of a two-pass job with a scale expression.
C24_Witness ==
    /\ Built
    /\ job.class = "RecodeJob"
    /\ job.v_mode = "2-Pass"
    /\ job.scale # ""
    /\ Len(command_list_group) = 2
    /\ Idx(command_list_group[1], FilterFlags) # {}

\* The attributes of the worker object that run() assigns on the worker
\* thread: self.process, at line 234.
WorkerWritten == {"process"}

\* The attributes of the worker object that stop(), on the caller thread, has
\* read or written when it stands at stop_pc: line 273 writes the flag, and
\* line 274 reads self.process, then polls the Popen object it names; line
\* 275 terminates that object.
StopAccessed ==
    IF stop_pc \in {"idle", "set_flag"} THEN {}
    ELSE IF stop_pc = "test_process" THEN {"_is_stopped"}
    ELSE {"_is_stopped", "process"}

\* C25 (as claimed): the stop flag is the only mutable state the two threads
\* share during a run: stop() reads or writes no variable that the worker
\* thread writes, other than the flag.
C25_FlagOnlySharedState ==
    StopAccessed \cap WorkerWritten \subseteq {"_is_stopped"}

\* The positions in events of the output lines of pass k.
LineIdx(k) ==
    { n \in DOMAIN events : events[n].msg = "line" /\ events[n].pass = k }

\* The position in events of the first event of pass k with message msg, or 0.
FirstIdx(k, msg) ==
    LET S == { n \in DOMAIN events : events[n].msg = msg /\ events[n].pass = k }
    IN  IF S = {} THEN 0 ELSE CHOOSE n \in S : \A m \in S : n <= m

\* C26: for each pass k that is launched, the worker has emitted the 'pass k
\* of N' event and then the command event before the child of pass k exists;
\* the output lines of pass k are emitted in arrival order (the j-th line
\* event is line j), after those two events and before any event of pass
\* k+1; and when the pass was read to its end with the stop flag unset, every
\* line the child wrote has been emitted.
C26_PassEventOrder ==
    /\ \A c \in DOMAIN children :
         LET k == children[c].pass
         IN  /\ FirstIdx(k, "pass_start") > 0
             /\ FirstIdx(k, "pass_start") < FirstIdx(k, "command")
             /\ events[FirstIdx(k, "pass_start")].code = Len(command_list_group)
             /\ (children[c].waited /\ ~_is_stopped)
                  => Cardinality(LineIdx(k)) = children[c].written
    /\ \A k \in 1..MaxPasses :
         \A n \in LineIdx(k) :
             /\ \E c \in DOMAIN children : children[c].pass = k
             /\ FirstIdx(k, "command") > 0
             /\ FirstIdx(k, "command") < n
             /\ events[n].code = Cardinality({ m \in LineIdx(k) : m <= n })
             /\ \A m \in DOMAIN events : events[m].pass > k => n < m

\* C26 witness: a two-pass run in which both children wrote lines and the
\* worker emitted a line of each pass.
C26_Witness ==
    /\ Len(children) = 2
    /\ Cardinality(LineIdx(1)) = MaxLines
    /\ LineIdx(2) # {}
    /\ children[2].waited

\* C27 (as claimed): when run() returns, in any outcome, no child process
\* that the run launched is still running: every launched child has exited
\* and has been waited for before cleanup starts.
C27_NoChildOutlivesRun ==
    (cleanups > 0 \/ RunEnded) =>
        \A c \in DOMAIN children :
            children[c].state = "exited" /\ children[c].waited

\* C28 (as claimed): if stop() is called during a run, run() eventually
\* returns, given fair scheduling and given only that a child which was sent
\* the termination signal eventually exits.
C28_StopEndsRun == (stop_pc # "idle") ~> RunEnded

====
